---- MODULE Spec2Model ----
(***************************************************************************)
(* PostForward (src/src/index.js): an edge handler that accepts POST       *)
(* requests, relays them to one fixed backend URL, logs request/response   *)
(* records to a remote sink (logger.log) and to the console, and returns   *)
(* the backend's response with an x-serviceVersion header.                 *)
(*                                                                         *)
(* Text is modelled as a sequence of Unicode code points and a body on the *)
(* wire as a sequence of bytes, so that request.text()/response.text()     *)
(* (UTF-8 decoding) and new Response(string) (UTF-8 encoding) are the      *)
(* conversions they are.  Each handler instance advances from one await    *)
(* point to the next in one action.                                        *)
(***************************************************************************)
EXTENDS Integers, Sequences, FiniteSets, TLC

VARIABLES
    envVersion,   \* value of env("FASTLY_SERVICE_VERSION"), "" when unset
    pc,           \* per request: position of its handleRequest instance
    inbound,      \* per request: the inbound Request (method, url, headers, body bytes)
    requestBody,  \* per request: the text captured by request.text()
    pending,      \* per request: the backend Response whose body is being read
    outbound,     \* per request: the Requests handed to fetch(), in order
    fetched,      \* per request: the outcomes of the outbound calls, in order
    returned,     \* per request: the Responses handed to event.respondWith
    remoteLog,    \* records written with logger.log, in order
    consoleLog,   \* records written with console.log, in order
    bodyReads,    \* per request: number of request.text() calls
    respReads,    \* per request: number of response.text() calls
    thrown,       \* per request: the exceptions raised, where, and the catch that took them
    faults,       \* what the serializer and the sinks refuse in this run
    events,       \* per request: its observable steps, in program order
    forwarded,    \* per request: the Responses forwardRequest returned
    backend,      \* which answers the backend of this run has to offer
    clock         \* the clock new Date() reads: its time, the reads made of it,
                  \* and the read at which it has moved on by one tick

vars == << envVersion, pc, inbound, requestBody, pending, outbound, fetched,
           returned, remoteLog, consoleLog, bodyReads, respReads, thrown,
           faults, events, forwarded, backend, clock >>

----------------------------------------------------------------------------
(* Bounds of the model *)

\* longest body (in bytes) a client or the backend sends
MaxBodyLen == 2

\* clock ticks in a day
TicksPerDay == 2

\* latest read of the clock at which it may move on
MaxTickAt == 8

\* the handler instances of one run
Reqs == DOMAIN pc

----------------------------------------------------------------------------
(* String literals of index.js, as code points *)

\* "Method not allowed"
MethodNotAllowedText ==
    << 77, 101, 116, 104, 111, 100, 32, 110, 111, 116, 32, 97, 108, 108, 111,
       119, 101, 100 >>

\* "Internal Server Error"
InternalServerErrorText ==
    << 73, 110, 116, 101, 114, 110, 97, 108, 32, 83, 101, 114, 118, 101, 114,
       32, 69, 114, 114, 111, 114 >>

\* "https://httpbin.org/post"
backendUrl ==
    << 104, 116, 116, 112, 115, 58, 47, 47, 104, 116, 116, 112, 98, 105, 110,
       46, 111, 114, 103, 47, 112, 111, 115, 116 >>

\* "Network error: Unable to reach backend at "
NetworkErrorPrefix ==
    << 78, 101, 116, 119, 111, 114, 107, 32, 101, 114, 114, 111, 114, 58, 32,
       85, 110, 97, 98, 108, 101, 32, 116, 111, 32, 114, 101, 97, 99, 104,
       32, 98, 97, 99, 107, 101, 110, 100, 32, 97, 116, 32 >>

\* "Backend error: "
BackendErrorPrefix ==
    << 66, 97, 99, 107, 101, 110, 100, 32, 101, 114, 114, 111, 114, 58, 32 >>

\* "Invalid response from backend: "
InvalidResponsePrefix ==
    << 73, 110, 118, 97, 108, 105, 100, 32, 114, 101, 115, 112, 111, 110,
       115, 101, 32, 102, 114, 111, 109, 32, 98, 97, 99, 107, 101, 110, 100,
       58, 32 >>

\* " - Status: "
StatusInfix ==
    << 32, 45, 32, 83, 116, 97, 116, 117, 115, 58, 32 >>

\* "undefined"
UndefinedText ==
    << 117, 110, 100, 101, 102, 105, 110, 101, 100 >>

\* "fetch"
FetchWord ==
    << 102, 101, 116, 99, 104 >>

\* "Invalid response object"
InvalidResponseObjectText ==
    << 73, 110, 118, 97, 108, 105, 100, 32, 114, 101, 115, 112, 111, 110,
       115, 101, 32, 111, 98, 106, 101, 99, 116 >>

----------------------------------------------------------------------------
(* Text and bytes *)

\* U+FFFD REPLACEMENT CHARACTER, what the UTF-8 decoder emits for a malformed
\* sequence
ReplacementChar == 65533

IsContinuation(b) == b >= 128 /\ b <= 191

\* the range the byte after lead byte b must lie in (WHATWG UTF-8 decoder)
SecondLow(b) == IF b = 224 THEN 160 ELSE IF b = 240 THEN 144 ELSE 128
SecondHigh(b) == IF b = 237 THEN 159 ELSE IF b = 244 THEN 143 ELSE 191

\* number of continuation bytes lead byte b asks for; 0 for a byte that is no
\* lead byte of a multi-byte sequence
Needed(b) ==
    IF b >= 194 /\ b <= 223 THEN 1
    ELSE IF b >= 224 /\ b <= 239 THEN 2
    ELSE IF b >= 240 /\ b <= 244 THEN 3
    ELSE 0

LeadBits(b) ==
    IF Needed(b) = 1 THEN b - 192
    ELSE IF Needed(b) = 2 THEN b - 224
    ELSE b - 240

\* how many continuation bytes of the sequence led by bs[i] are well formed
RECURSIVE GoodTail(_, _, _)
GoodTail(bs, i, k) ==
    LET j == i + k + 1
        ok == /\ j <= Len(bs)
              /\ IF k = 0
                 THEN bs[j] >= SecondLow(bs[i]) /\ bs[j] <= SecondHigh(bs[i])
                 ELSE IsContinuation(bs[j])
    IN IF k >= Needed(bs[i]) \/ ~ok THEN k ELSE GoodTail(bs, i, k + 1)

RECURSIVE TailBits(_, _, _, _)
TailBits(bs, i, k, acc) ==
    IF k > Needed(bs[i]) THEN acc
    ELSE TailBits(bs, i, k + 1, acc * 64 + (bs[i + k] - 128))

\* the decoder proper: a malformed sequence becomes one U+FFFD and decoding
\* resumes at the first byte that is not part of it
RECURSIVE DecodeFrom(_, _)
DecodeFrom(bs, i) ==
    IF i > Len(bs) THEN << >>
    ELSE IF bs[i] < 128 THEN << bs[i] >> \o DecodeFrom(bs, i + 1)
    ELSE IF Needed(bs[i]) = 0 THEN << ReplacementChar >> \o DecodeFrom(bs, i + 1)
    ELSE LET g == GoodTail(bs, i, 0)
         IN IF g = Needed(bs[i])
            THEN << TailBits(bs, i, 1, LeadBits(bs[i])) >> \o DecodeFrom(bs, i + g + 1)
            ELSE << ReplacementChar >> \o DecodeFrom(bs, i + g + 1)

\* Body.text(): "UTF-8 decode", which drops a leading byte order mark
UTF8Decode(bs) ==
    IF Len(bs) >= 3 /\ bs[1] = 239 /\ bs[2] = 187 /\ bs[3] = 191
    THEN DecodeFrom(bs, 4)
    ELSE DecodeFrom(bs, 1)

EncodeChar(c) ==
    IF c < 128 THEN << c >>
    ELSE IF c < 2048 THEN << 192 + (c \div 64), 128 + (c % 64) >>
    ELSE IF c < 65536
    THEN << 224 + (c \div 4096), 128 + ((c \div 64) % 64), 128 + (c % 64) >>
    ELSE << 240 + (c \div 262144), 128 + ((c \div 4096) % 64),
            128 + ((c \div 64) % 64), 128 + (c % 64) >>

\* new Request/Response(<string>): the body is the string's UTF-8 encoding
RECURSIVE UTF8Encode(_)
UTF8Encode(text) ==
    IF text = << >> THEN << >>
    ELSE EncodeChar(Head(text)) \o UTF8Encode(Tail(text))

\* String.prototype.includes
Includes(text, word) ==
    \E i \in 0..(Len(text) - Len(word)) : SubSeq(text, i + 1, i + Len(word)) = word

\* template-literal formatting of a number
RECURSIVE NumberToText(_)
NumberToText(n) ==
    IF n < 10 THEN << 48 + n >>
    ELSE NumberToText(n \div 10) \o << 48 + (n % 10) >>

\* the bytes bodies are made of: "1", and the two bytes of U+00E9, each of which
\* alone is a malformed sequence
BodyBytes == {49, 195, 169}

RECURSIVE SeqsUpTo(_, _)
SeqsUpTo(S, n) ==
    IF n = 0 THEN {<< >>}
    ELSE LET shorter == SeqsUpTo(S, n - 1)
         IN shorter \cup {Append(s, x) : s \in {t \in shorter : Len(t) = n - 1}, x \in S}

Bodies == SeqsUpTo(BodyBytes, MaxBodyLen)

----------------------------------------------------------------------------
(* Values handled by the program *)

\* header names are case-insensitive; Headers stores them in lower case
XServiceVersion == "x-serviceversion"
ContentType == "content-type"
TextPlain == "text/plain;charset=UTF-8"

EmptyHeaders == [n \in {} |-> ""]

\* Headers.prototype.set
HeadersSet(h, n, v) == [k \in DOMAIN h \cup {n} |-> IF k = n THEN v ELSE h[k]]

\* a Request or Response built from a string body gets the string's content
\* type unless its headers already name one
WithTextContentType(h) ==
    IF ContentType \in DOMAIN h THEN h ELSE HeadersSet(h, ContentType, TextPlain)

Methods == {"POST", "GET"}

\* mutant: the method check also lets GET through
MethodAllowedGetToo(method) == method \in {"POST", "GET"}

\* if (request.method !== "POST") return 405, negated
MethodAllowed(method) == method = "POST"

InboundUrl == "https://edge.example/webhook"

InboundHeaders == {EmptyHeaders, [n \in {ContentType} |-> "application/json"]}

\* statuses the backend answers with: plain success, the null body status 204,
\* and client/server errors (among them the proxy's own 502 and 503)
BackendStatuses == {200, 204, 404, 500, 503}

StatusText(s) ==
    CASE s = 200 -> "OK"
      [] s = 204 -> "No Content"
      [] s = 404 -> "Not Found"
      [] s = 500 -> "Internal Server Error"
      [] s = 503 -> "Service Unavailable"
      [] OTHER -> ""

BackendHeaders ==
    { EmptyHeaders,
      [n \in {ContentType} |-> "application/json"],
      [n \in {XServiceVersion} |-> "backend-7"] }

BackendResponses ==
    { [status |-> s, statusText |-> StatusText(s), headers |-> h, body |-> b] :
        s \in BackendStatuses, h \in BackendHeaders, b \in Bodies }

\* "fetch failed"
FetchFailedText ==
    << 102, 101, 116, 99, 104, 32, 102, 97, 105, 108, 101, 100 >>

\* "terminated"
TerminatedText ==
    << 116, 101, 114, 109, 105, 110, 97, 116, 101, 100 >>

\* "fetch timed out"
FetchTimeoutText ==
    << 102, 101, 116, 99, 104, 32, 116, 105, 109, 101, 100, 32, 111, 117,
       116 >>

\* "Response body is given with a null body status"
NullBodyStatusText ==
    << 82, 101, 115, 112, 111, 110, 115, 101, 32, 98, 111, 100, 121, 32, 105,
       115, 32, 103, 105, 118, 101, 110, 32, 119, 105, 116, 104, 32, 97, 32,
       110, 117, 108, 108, 32, 98, 111, 100, 121, 32, 115, 116, 97, 116, 117,
       115 >>

\* what the transport rejects with: a network-level TypeError that names
\* fetch, a TypeError that does not, and an error of another class
TransportErrors ==
    { [name |-> "TypeError", message |-> FetchFailedText],
      [name |-> "TypeError", message |-> TerminatedText],
      [name |-> "Error", message |-> FetchTimeoutText] }

\* what reading the inbound body stream rejects with
InboundErrors ==
    { [name |-> "TypeError", message |-> TerminatedText],
      [name |-> "Error", message |-> FetchTimeoutText] }

\* mutant: every status below 500 counts as ok
OkBelow500(response) == response.status >= 200 /\ response.status < 500

\* Response.prototype.ok
Ok(response) == response.status >= 200 /\ response.status <= 299

\* the Response constructor refuses a body together with one of these
NullBodyStatus(s) == s \in {204, 205, 304}

\* new Response(<string>, {status, statusText, headers})
NewResponse(text, status, statusText, headers) ==
    [ status |-> status, statusText |-> statusText,
      headers |-> WithTextContentType(headers), body |-> UTF8Encode(text) ]

\* const SERVICE_VERSION = env("FASTLY_SERVICE_VERSION") || "unknown"
SERVICE_VERSION == IF envVersion = "" THEN "unknown" ELSE envVersion

VersionHeaders == [n \in {XServiceVersion} |-> SERVICE_VERSION]

----------------------------------------------------------------------------
(* JSON.parse, on the texts the body bytes decode to: of these only an      *)
(* integer literal is a JSON text                                           *)

IsDigit(c) == c >= 48 /\ c <= 57

IsJSONInteger(text) ==
    LET digits == IF text # << >> /\ Head(text) = 45 THEN Tail(text) ELSE text
    IN /\ digits # << >>
       /\ \A i \in 1..Len(digits) : IsDigit(digits[i])
       /\ (Len(digits) > 1 => digits[1] # 48)

RECURSIVE DigitsValue(_, _)
DigitsValue(digits, acc) ==
    IF digits = << >> THEN acc
    ELSE DigitsValue(Tail(digits), acc * 10 + (Head(digits) - 48))

\* mutant: the body is never parsed
ParseOrRawNeverParsed(text) == [ json |-> FALSE, text |-> text, number |-> 0 ]

\* try { parsedBody = JSON.parse(body) } catch { parsedBody = body }
ParseOrRaw(text) ==
    IF IsJSONInteger(text)
    THEN [ json |-> TRUE, text |-> << >>,
           number |-> IF Head(text) = 45 THEN 0 - DigitsValue(Tail(text), 0)
                      ELSE DigitsValue(text, 0) ]
    ELSE [ json |-> FALSE, text |-> text, number |-> 0 ]

----------------------------------------------------------------------------
(* The two sinks, and what can go wrong at them.  A log entry pairs the     *)
(* record written with the request whose handler wrote it.                  *)

LogTypes ==
    { "REQUEST", "RESPONSE", "BACKEND_ERROR", "FORWARD_ERROR", "RESPONSE_ERROR",
      "RESPONSE_LOG_ERROR", "REQUEST_ERROR" }

\* the faults of a run, by the type of the record at hand (a request makes
\* each emission once, so this is also by the moment of the call): the
\* records JSON.stringify raises on (the minimal fallback record is not among
\* them), the records logger.log raises on, whether it then raises on their
\* fallback record too, and the records console.log raises on
NoFaults ==
    [unserializable |-> {}, unwritable |-> {}, fallback |-> FALSE, console |-> {}]

\* where a run has its faults: nowhere, at one emission, at the two
\* emissions of logResponseDetails for an ok response, or everywhere
FaultySets ==
    {{t} : t \in LogTypes} \cup {{"RESPONSE", "RESPONSE_LOG_ERROR"}, LogTypes}

FaultPlans ==
    {NoFaults}
    \cup {[NoFaults EXCEPT !.unserializable = S] : S \in FaultySets}
    \cup {[NoFaults EXCEPT !.unwritable = S, !.fallback = b] :
             S \in FaultySets, b \in BOOLEAN}
    \cup {[NoFaults EXCEPT !.console = S] : S \in FaultySets}
    \cup {[unserializable |-> {}, unwritable |-> LogTypes, fallback |-> TRUE,
            console |-> LogTypes]}

\* "cyclic object value"
StringifyErrorText ==
    << 99, 121, 99, 108, 105, 99, 32, 111, 98, 106, 101, 99, 116, 32, 118, 97,
       108, 117, 101 >>

\* "log write failed"
WriteErrorText ==
    << 108, 111, 103, 32, 119, 114, 105, 116, 101, 32, 102, 97, 105, 108, 101,
       100 >>

StringifyError == [name |-> "TypeError", message |-> StringifyErrorText]

WriteError == [name |-> "Error", message |-> WriteErrorText]

\* new Date().toISOString(): the date, the letter T (written -1 here), the
\* time of day
ToISOString(instant) == << instant \div TicksPerDay, -1, instant % TicksPerDay >>

\* <string>.split('T')[0]: what stands before the first T
RECURSIVE BeforeT(_)
BeforeT(text) ==
    IF text = << >> \/ Head(text) = -1 THEN << >>
    ELSE << Head(text) >> \o BeforeT(Tail(text))

\* a clock that stands still
StillClock == [now |-> 0, reads |-> 0, tickAt |-> 0]

\* the clocks of the runs where time passes: it moves on by one tick at one
\* read (never, for tickAt = 0), within a day or across midnight
MovingClocks ==
    [now : {0, TicksPerDay - 1}, reads : {0}, tickAt : 0..MaxTickAt]

\* the clock after n more reads of it (new Date() or Date.now()); the value
\* the last of them reads is the now of the result
Reading(c, n) ==
    [ now |-> IF c.reads < c.tickAt /\ c.tickAt <= c.reads + n THEN c.now + 1
              ELSE c.now,
      reads |-> c.reads + n,
      tickAt |-> c.tickAt ]

\* the common fields of a remote record, each from its own reading of the
\* clock and in the order the object literal lists them: log_id
\* (generateLogId, Date.now(); its random suffix is left out), timestamp,
\* created_at, partition_date
StampOn(ctx, record) ==
    IF ctx.exc # << >> THEN [ctx |-> ctx, record |-> record]
    ELSE
    [ ctx |-> [ctx EXCEPT !.clock = Reading(ctx.clock, 4)],
      record |-> record @@
                 [ log_id |-> Reading(ctx.clock, 1).now,
                   timestamp |-> ToISOString(Reading(ctx.clock, 2).now),
                   created_at |-> ToISOString(Reading(ctx.clock, 3).now),
                   partition_date |-> BeforeT(ToISOString(Reading(ctx.clock, 4).now)) ] ]

\* what the code of request r runs on: the sinks, the exception in flight
\* (exc, empty when there is none: statements after a raise are skipped until
\* a catch takes it), the exceptions taken so far and the order of the
\* request's observable steps
Context(r) ==
    [ remote |-> remoteLog, console |-> consoleLog, exc |-> << >>,
      thrown |-> thrown[r], events |-> events[r], clock |-> clock ]

\* throw <error>, at <where>, while handling the record type <about>
Raise(ctx, error, where, about) ==
    [ctx EXCEPT !.exc = << [error |-> error, in |-> where, about |-> about] >>]

\* catch (error) { ... } of <catcher> takes the exception in flight
Caught(ctx, catcher) ==
    [ctx EXCEPT !.exc = << >>,
                !.thrown = Append(@, [ error |-> ctx.exc[1].error,
                                       in |-> ctx.exc[1].in,
                                       about |-> ctx.exc[1].about,
                                       caught |-> catcher ])]

\* an observable step of the request, in program order
Event(ctx, what, detail) ==
    IF ctx.exc # << >> THEN ctx
    ELSE [ctx EXCEPT !.events = Append(@, << what, detail >>)]

\* logger.log(<string>), for the full record or (isFallback) its fallback
LoggerWrite(ctx, r, record, isFallback) ==
    IF /\ record.log_type \in faults.unwritable
       /\ isFallback => faults.fallback
    THEN Raise(ctx, WriteError,
               IF isFallback THEN "logger.log (fallback)" ELSE "logger.log",
               record.log_type)
    ELSE [ctx EXCEPT !.remote = Append(@, [req |-> r, record |-> record]),
                     !.events = Append(@, << "emit", record.log_type >>)]

\* const m = JSON.stringify(record); try { JSON.parse(m); logger.log(m) }
\* catch { logger.log(JSON.stringify(fallback)) }.  JSON.stringify stands
\* before the try: when it raises, the catch with the fallback is not
\* entered.  JSON.parse of a string JSON.stringify returned does not raise,
\* so the catch is entered only when logger.log raises.
EmitOn(full, r, fallback) ==
    IF full.ctx.exc # << >> THEN full.ctx
    ELSE IF full.record.log_type \in faults.unserializable
    THEN Raise(full.ctx, StringifyError, "JSON.stringify", full.record.log_type)
    ELSE LET tried == LoggerWrite(full.ctx, r, full.record, FALSE)
         IN IF tried.exc = << >> THEN tried
            ELSE LoggerWrite(StampOn(Caught(tried, "validation"), fallback).ctx, r,
                             StampOn(Caught(tried, "validation"), fallback).record,
                             TRUE)

\* the same from the record as the caller builds it, stamped once
Emit(sinks, r, record, fallback) ==
    CHOOSE after \in {EmitOn(full, r, fallback) : full \in {StampOn(sinks, record)}} :
        TRUE

\* logger.log(JSON.stringify(record)) with no validation around it
EmitUncheckedOn(full, r) ==
    IF full.ctx.exc # << >> THEN full.ctx
    ELSE IF full.record.log_type \in faults.unserializable
    THEN Raise(full.ctx, StringifyError, "JSON.stringify", full.record.log_type)
    ELSE LoggerWrite(full.ctx, r, full.record, FALSE)

\* the same from the record as the caller builds it, stamped once
EmitUnchecked(sinks, r, record) ==
    CHOOSE after \in {EmitUncheckedOn(full, r) : full \in {StampOn(sinks, record)}} :
        TRUE

\* console.log(JSON.stringify({timestamp: new Date().toISOString(), ...}))
ConsoleOn(sinks, r, record) ==
    IF sinks.exc # << >> THEN sinks
    ELSE IF record.type \in faults.console
    THEN Raise([sinks EXCEPT !.clock = Reading(@, 1)], WriteError, "console.log",
               record.type)
    ELSE [sinks EXCEPT
            !.clock = Reading(@, 1),
            !.console =
               Append(@, [ req |-> r,
                           record |-> record @@
                             [ timestamp |->
                                 ToISOString(Reading(sinks.clock, 1).now) ] ])]

\* the same, with the sinks it is given worked out once
Console(sinks, r, record) ==
    CHOOSE after \in {ConsoleOn(given, r, record) : given \in {sinks}} : TRUE

\* "JSON serialization failed"
JSONSerializationFailedText ==
    << 74, 83, 79, 78, 32, 115, 101, 114, 105, 97, 108, 105, 122, 97,
       116, 105, 111, 110, 32, 102, 97, 105, 108, 101, 100 >>

Fallback(logType) ==
    [log_type |-> logType, error_message |-> JSONSerializationFailedText]

logRequestDetails(sinks, r, request, requestText) ==
    LET parsedBody == ParseOrRaw(requestText)
        logEntry == [ log_type |-> "REQUEST",
                      request_method |-> request.method,
                      request_url |-> request.url,
                      backend_url |-> backendUrl,
                      request_headers |-> request.headers,
                      request_body |-> parsedBody ]
        fallbackLog == [ log_type |-> "REQUEST",
                         request_method |-> request.method,
                         request_url |-> request.url,
                         backend_url |-> backendUrl,
                         error_message |-> JSONSerializationFailedText ]
    IN Console(Emit(sinks, r, logEntry, fallbackLog), r,
               [ type |-> "REQUEST", method |-> request.method,
                 url |-> request.url, backendUrl |-> backendUrl,
                 headers |-> request.headers, body |-> parsedBody ])

\* mutant: a version header the response already has is kept
addServiceVersionHeaderIfMissing(response) ==
    [ status |-> response.status, statusText |-> response.statusText,
      headers |-> IF XServiceVersion \in DOMAIN response.headers
                  THEN response.headers
                  ELSE HeadersSet(response.headers, XServiceVersion, SERVICE_VERSION),
      body |-> response.body ]

\* const newHeaders = new Headers(response.headers);
\* newHeaders.set('x-serviceVersion', SERVICE_VERSION);
\* return new Response(response.body, {status, statusText, headers: newHeaders})
addServiceVersionHeader(response) ==
    [ status |-> response.status, statusText |-> response.statusText,
      headers |-> HeadersSet(response.headers, XServiceVersion, SERVICE_VERSION),
      body |-> response.body ]

\* new Request(backendUrl, {method, headers, body: requestBody})
BackendRequest(request, requestText) ==
    [ url |-> backendUrl, method |-> request.method,
      headers |-> WithTextContentType(request.headers),
      body |-> UTF8Encode(requestText) ]

\* `Invalid response from backend: ${backendUrl} - Status: ${response?.status}`
InvalidResponseMessage(statusShown) ==
    InvalidResponsePrefix \o backendUrl \o StatusInfix \o statusShown

\* mutant: the BACKEND_ERROR record goes to the console only
BackendErrorLogConsoleOnly(sinks, r, absent, status) ==
    Console(sinks, r,
            [ type |-> "BACKEND_ERROR",
              error |-> InvalidResponseMessage(IF absent THEN UndefinedText
                                               ELSE NumberToText(status)) ])

\* forwardRequest, the branch for a response that is absent or not ok, up to
\* its throw: the BACKEND_ERROR record.  JSON.stringify leaves out
\* response_status when response?.status is undefined.
BackendErrorLog(sinks, r, absent, status) ==
    LET shown == IF absent THEN UndefinedText ELSE NumberToText(status)
        common == [ log_type |-> "BACKEND_ERROR",
                    error_message |-> InvalidResponseMessage(shown),
                    error_type |-> "INVALID_BACKEND_RESPONSE" ]
        errorLog == IF absent THEN common
                    ELSE [ log_type |-> common.log_type,
                           error_message |-> common.error_message,
                           error_type |-> common.error_type,
                           response_status |-> status ]
    IN Console(Emit(sinks, r, errorLog, Fallback("BACKEND_ERROR")), r,
               [ type |-> "BACKEND_ERROR", error |-> InvalidResponseMessage(shown) ])

\* throw new Error(`Invalid response from backend: ...`)
BackendError(absent, status) ==
    [ name |-> "Error",
      message |-> InvalidResponseMessage(IF absent THEN UndefinedText
                                         ELSE NumberToText(status)) ]

\* mutant: || in place of &&
IsNetworkErrorEither(error) ==
    error.name = "TypeError" \/ Includes(error.message, FetchWord)

\* mutant: the class of the error is not looked at
IsNetworkErrorByMessage(error) == Includes(error.message, FetchWord)

\* if (error.name === 'TypeError' && error.message.includes('fetch'))
IsNetworkError(error) ==
    error.name = "TypeError" /\ Includes(error.message, FetchWord)

\* mutant: every caught error is answered as a network error
ForwardCatchAlways503(sinks, r, error) ==
    LET errorLog == [ log_type |-> "FORWARD_ERROR",
                      error_message |-> error.message,
                      error_type |-> "NETWORK_ERROR" ]
        logged == Console(Emit(sinks, r, errorLog, Fallback("FORWARD_ERROR")), r,
                          [ type |-> "FORWARD_ERROR", error |-> error.message ])
        text == NetworkErrorPrefix \o backendUrl
    IN [ sinks |-> logged,
         response |-> NewResponse(text, 503, "Service Unavailable", VersionHeaders),
         responseBody |-> text ]

\* mutant: the catch writes to the console only
ForwardCatchConsoleOnly(sinks, r, error) ==
    LET text == IF error.name = "TypeError" /\ Includes(error.message, FetchWord)
                THEN NetworkErrorPrefix \o backendUrl
                ELSE BackendErrorPrefix \o error.message
    IN [ sinks |-> Console(sinks, r, [ type |-> "FORWARD_ERROR",
                                        error |-> error.message ]),
         response |-> IF error.name = "TypeError" /\ Includes(error.message, FetchWord)
                      THEN NewResponse(text, 503, "Service Unavailable", VersionHeaders)
                      ELSE NewResponse(text, 502, "Bad Gateway", VersionHeaders),
         responseBody |-> text ]

\* mutant: the catch logs and throws the error on
ForwardCatchRethrows(sinks, r, error) ==
    LET errorLog == [ log_type |-> "FORWARD_ERROR",
                      error_message |-> error.message,
                      error_type |-> "NETWORK_ERROR" ]
        logged == Console(Emit(sinks, r, errorLog, Fallback("FORWARD_ERROR")), r,
                          [ type |-> "FORWARD_ERROR", error |-> error.message ])
        text == BackendErrorPrefix \o error.message
    IN [ sinks |-> Raise(logged, error, "forwardRequest", ""),
         response |-> NewResponse(text, 502, "Bad Gateway", VersionHeaders),
         responseBody |-> text ]

\* forwardRequest's catch: the FORWARD_ERROR record, then the synthesized
\* response and its body text
ForwardCatch(sinks, r, error) ==
    LET errorLog == [ log_type |-> "FORWARD_ERROR",
                      error_message |-> error.message,
                      error_type |-> "NETWORK_ERROR" ]
        logged == Console(Emit(sinks, r, errorLog, Fallback("FORWARD_ERROR")), r,
                          [ type |-> "FORWARD_ERROR", error |-> error.message ])
        text == IF IsNetworkError(error)
                THEN NetworkErrorPrefix \o backendUrl
                ELSE BackendErrorPrefix \o error.message
    IN [ sinks |-> logged,
         response |-> IF IsNetworkError(error)
                      THEN NewResponse(text, 503, "Service Unavailable", VersionHeaders)
                      ELSE NewResponse(text, 502, "Bad Gateway", VersionHeaders),
         responseBody |-> text ]

\* mutant: a response that is not ok is not logged at all
logResponseDetailsOkOnly(sinks, r, response, responseBody) ==
    IF ~Ok(response) THEN sinks
    ELSE LET parsedBody == ParseOrRaw(responseBody)
         IN Console(Emit(sinks, r,
                         [ log_type |-> "RESPONSE",
                           response_status |-> response.status,
                           response_status_text |-> response.statusText,
                           response_headers |-> response.headers,
                           response_body |-> parsedBody ],
                         Fallback("RESPONSE")), r,
                    [ type |-> "RESPONSE", status |-> response.status,
                      statusText |-> response.statusText,
                      headers |-> response.headers, body |-> parsedBody ])

\* mutant: the check of response.ok is missing, every response is logged as
\* RESPONSE
logResponseDetailsNoOkCheck(sinks, r, response, responseBody) ==
    LET parsedBody == ParseOrRaw(responseBody)
    IN Console(Emit(sinks, r,
                    [ log_type |-> "RESPONSE",
                      response_status |-> response.status,
                      response_status_text |-> response.statusText,
                      response_headers |-> response.headers,
                      response_body |-> parsedBody ],
                    Fallback("RESPONSE")), r,
               [ type |-> "RESPONSE", status |-> response.status,
                 statusText |-> response.statusText,
                 headers |-> response.headers, body |-> parsedBody ])

\* mutant: logResponseDetails without its try/catch, run to its first raise
logResponseDetailsUncaught(sinks, r, response, responseBody) ==
    IF ~Ok(response)
    THEN Console(Emit(sinks, r,
                      [ log_type |-> "RESPONSE_ERROR",
                        error_message |-> InvalidResponseObjectText,
                        error_type |-> "INVALID_RESPONSE",
                        response_status |-> response.status ],
                      Fallback("RESPONSE_ERROR")), r,
                 [ type |-> "RESPONSE_ERROR", error |-> InvalidResponseObjectText,
                   status |-> response.status ])
    ELSE LET parsedBody == ParseOrRaw(responseBody)
         IN Console(Emit(sinks, r,
                         [ log_type |-> "RESPONSE",
                           response_status |-> response.status,
                           response_status_text |-> response.statusText,
                           response_headers |-> response.headers,
                           response_body |-> parsedBody ],
                         Fallback("RESPONSE")), r,
                    [ type |-> "RESPONSE", status |-> response.status,
                      statusText |-> response.statusText,
                      headers |-> response.headers, body |-> parsedBody ])

\* logResponseDetails(response, responseBody): the try block, and for an
\* exception raised in it the catch with its RESPONSE_LOG_ERROR record.  The
\* function is async and handleRequest does not await it: an exception raised
\* in the catch rejects a promise nobody holds.
logResponseDetails(sinks, r, response, responseBody) ==
    LET attempt ==
          IF ~Ok(response)
          THEN Console(Emit(sinks, r,
                            [ log_type |-> "RESPONSE_ERROR",
                              error_message |-> InvalidResponseObjectText,
                              error_type |-> "INVALID_RESPONSE",
                              response_status |-> response.status ],
                            Fallback("RESPONSE_ERROR")), r,
                       [ type |-> "RESPONSE_ERROR",
                         error |-> InvalidResponseObjectText,
                         status |-> response.status ])
          ELSE LET parsedBody == ParseOrRaw(responseBody)
               IN Console(Emit(sinks, r,
                               [ log_type |-> "RESPONSE",
                                 response_status |-> response.status,
                                 response_status_text |-> response.statusText,
                                 response_headers |-> response.headers,
                                 response_body |-> parsedBody ],
                               Fallback("RESPONSE")), r,
                          [ type |-> "RESPONSE", status |-> response.status,
                            statusText |-> response.statusText,
                            headers |-> response.headers, body |-> parsedBody ])
    IN IF attempt.exc = << >> THEN attempt
       ELSE LET error == attempt.exc[1].error
                handled ==
                  Console(Emit(Caught(attempt, "logResponseDetails"), r,
                               [ log_type |-> "RESPONSE_LOG_ERROR",
                                 error_message |-> error.message,
                                 error_type |-> "LOGGING_ERROR" ],
                               Fallback("RESPONSE_LOG_ERROR")), r,
                          [ type |-> "RESPONSE_LOG_ERROR", error |-> error.message ])
            IN IF handled.exc = << >> THEN handled ELSE Caught(handled, "promise")

\* mutant: the catch logs and throws the error on
HandlerCatchRethrows(sinks, r, error) ==
    [ sinks |-> Raise(Console(EmitUnchecked(sinks, r,
                                            [ log_type |-> "REQUEST_ERROR",
                                              error_message |-> error.message,
                                              error_type |-> "PROCESSING_ERROR" ]), r,
                              [ type |-> "REQUEST_ERROR", error |-> error.message ]),
                      error, "handleRequest", ""),
      response |-> NewResponse(InternalServerErrorText, 500, "", VersionHeaders) ]

\* mutant: the 500 response tells the error's message
HandlerCatchTellsMessage(sinks, r, error) ==
    [ sinks |-> Console(EmitUnchecked(sinks, r,
                                      [ log_type |-> "REQUEST_ERROR",
                                        error_message |-> error.message,
                                        error_type |-> "PROCESSING_ERROR" ]), r,
                        [ type |-> "REQUEST_ERROR", error |-> error.message ]),
      response |-> NewResponse(error.message, 500, "", VersionHeaders) ]

\* handleRequest's catch: the REQUEST_ERROR record and the 500 response
HandlerCatch(sinks, r, error) ==
    [ sinks |-> Console(EmitUnchecked(sinks, r,
                                      [ log_type |-> "REQUEST_ERROR",
                                        error_message |-> error.message,
                                        error_type |-> "PROCESSING_ERROR" ]), r,
                        [ type |-> "REQUEST_ERROR", error |-> error.message ]),
      response |-> NewResponse(InternalServerErrorText, 500, "", VersionHeaders) ]

----------------------------------------------------------------------------
(* handleRequest, one action per stretch of code between two await points   *)

\* the names of the handler instances a run may have
Handlers == {"r1", "r2"}

Requests ==
    [ method : Methods, url : {InboundUrl}, headers : InboundHeaders, body : Bodies ]

Init ==
    /\ pc = [r \in {"r1"} |-> "start"]
    /\ envVersion \in {"", "42"}
    /\ inbound \in [Reqs -> Requests]
    /\ requestBody = [r \in Reqs |-> << >>]
    /\ pending = [r \in Reqs |-> << >>]
    /\ outbound = [r \in Reqs |-> << >>]
    /\ fetched = [r \in Reqs |-> << >>]
    /\ returned = [r \in Reqs |-> << >>]
    /\ thrown = [r \in Reqs |-> << >>]
    /\ remoteLog = << >>
    /\ consoleLog = << >>
    /\ bodyReads = [r \in Reqs |-> 0]
    /\ respReads = [r \in Reqs |-> 0]
    /\ faults = NoFaults
    /\ events = [r \in Reqs |-> << >>]
    /\ forwarded = [r \in Reqs |-> << >>]
    /\ backend = "any"
    /\ clock = StillClock

\* the requests and the backend responses of the runs with faults: bodies of
\* one byte value, every method, status and inbound header set
FaultRunRequests ==
    [ method : Methods, url : {InboundUrl}, headers : InboundHeaders,
      body : SeqsUpTo({49}, MaxBodyLen) ]

FaultRunResponses ==
    { [ status |-> s, statusText |-> StatusText(s), headers |-> EmptyHeaders,
        body |-> b ] : s \in BackendStatuses, b \in SeqsUpTo({49}, MaxBodyLen) }

\* the requests and the backend responses of the runs with two handlers:
\* POST requests, an ok and a not ok status
PairRunRequests ==
    [ method : {"POST"}, url : {InboundUrl}, headers : {EmptyHeaders},
      body : SeqsUpTo({49}, MaxBodyLen - 1) ]

PairRunResponses ==
    { [ status |-> s, statusText |-> StatusText(s), headers |-> EmptyHeaders,
        body |-> b ] : s \in {200, 404}, b \in SeqsUpTo({49}, MaxBodyLen - 1) }

\* what the backend may answer in this run
ResponsesOffered ==
    IF backend = "any" THEN BackendResponses
    ELSE IF backend = "plain" THEN FaultRunResponses
    ELSE PairRunResponses

InitFaults ==
    /\ pc = [r \in {"r1"} |-> "start"]
    /\ envVersion \in {"", "42"}
    /\ inbound \in [Reqs -> FaultRunRequests]
    /\ requestBody = [r \in Reqs |-> << >>]
    /\ pending = [r \in Reqs |-> << >>]
    /\ outbound = [r \in Reqs |-> << >>]
    /\ fetched = [r \in Reqs |-> << >>]
    /\ returned = [r \in Reqs |-> << >>]
    /\ thrown = [r \in Reqs |-> << >>]
    /\ remoteLog = << >>
    /\ consoleLog = << >>
    /\ bodyReads = [r \in Reqs |-> 0]
    /\ respReads = [r \in Reqs |-> 0]
    /\ faults \in FaultPlans
    /\ events = [r \in Reqs |-> << >>]
    /\ forwarded = [r \in Reqs |-> << >>]
    /\ backend = IF faults = NoFaults THEN "any" ELSE "plain"
    /\ clock = StillClock

\* a run where time passes, over the requests and the answers of the runs
\* with faults
InitClock ==
    /\ pc = [r \in {"r1"} |-> "start"]
    /\ envVersion \in {"", "42"}
    /\ inbound \in [Reqs -> FaultRunRequests]
    /\ requestBody = [r \in Reqs |-> << >>]
    /\ pending = [r \in Reqs |-> << >>]
    /\ outbound = [r \in Reqs |-> << >>]
    /\ fetched = [r \in Reqs |-> << >>]
    /\ returned = [r \in Reqs |-> << >>]
    /\ thrown = [r \in Reqs |-> << >>]
    /\ remoteLog = << >>
    /\ consoleLog = << >>
    /\ bodyReads = [r \in Reqs |-> 0]
    /\ respReads = [r \in Reqs |-> 0]
    /\ faults = NoFaults
    /\ events = [r \in Reqs |-> << >>]
    /\ forwarded = [r \in Reqs |-> << >>]
    /\ backend = "plain"
    /\ clock \in MovingClocks

\* what the code run on ctx has done to the sinks and to the request's trail
Commit(r, ctx) ==
    /\ remoteLog' = ctx.remote
    /\ consoleLog' = ctx.console
    /\ thrown' = [thrown EXCEPT ![r] = ctx.thrown]
    /\ events' = [events EXCEPT ![r] = ctx.events]
    /\ clock' = ctx.clock

\* return <response> from handleRequest
Respond(r, ctx, response) ==
    /\ Commit(r, Event(ctx, "return", "handleRequest"))
    /\ returned' = [returned EXCEPT ![r] = Append(@, response)]
    /\ pc' = [pc EXCEPT ![r] = "done"]

\* handleRequest from the point an exception reached its catch; an exception
\* raised in the catch itself leaves handleRequest, whose promise rejects
\* and hands no Response to respondWith
HandlerEnd(r, ctx) ==
    LET caught == HandlerCatch(Caught(ctx, "handleRequest"), r, ctx.exc[1].error)
    IN IF caught.sinks.exc = << >>
       THEN Respond(r, caught.sinks, caught.response)
       ELSE /\ Commit(r, Caught(caught.sinks, "none"))
            /\ pc' = [pc EXCEPT ![r] = "rejected"]
            /\ UNCHANGED returned

\* handleRequest from the point forwardRequest has returned {response,
\* responseBody}: logResponseDetails, addServiceVersionHeader, return
AfterForward(r, sinks, response, responseBody) ==
    LET logged == logResponseDetails(sinks, r, response, responseBody)
    IN /\ forwarded' = [forwarded EXCEPT ![r] = Append(@, response)]
       /\ IF logged.exc = << >>
          THEN Respond(r, logged, addServiceVersionHeader(response))
          ELSE HandlerEnd(r, logged)

\* forwardRequest from the point an exception reached its catch; an
\* exception raised in the catch leaves forwardRequest
AfterForwardCatch(r, sinks) ==
    LET caught == ForwardCatch(Caught(sinks, "forwardRequest"), r, sinks.exc[1].error)
    IN IF caught.sinks.exc = << >>
       THEN AfterForward(r, caught.sinks, caught.response, caught.responseBody)
       ELSE /\ HandlerEnd(r, caught.sinks)
            /\ UNCHANGED forwarded

\* mutant: the outbound call is made a second time
IssueFetchTwice(calls, request) == Append(Append(calls, request), request)

\* await fetch(backendRequest): the call is handed to the platform
IssueFetch(calls, request) == Append(calls, request)

\* mutant: the outbound call is prepared before the request is logged
BeforeFetchLogLast(sinks, r, request, requestText) ==
    logRequestDetails(Event(Event(sinks, "read", "request.text"), "fetch",
                            backendUrl), r, request, requestText)

\* handleRequest from the resolution of request.text() up to the call of
\* fetch: logRequestDetails, then forwardRequest's new Request and fetch
BeforeFetch(sinks, r, request, requestText) ==
    Event(logRequestDetails(Event(sinks, "read", "request.text"), r, request,
                            requestText), "fetch", backendUrl)

\* the method check; for a POST, up to the await of request.text()
MethodCheck(r) ==
    /\ pc[r] = "start"
    /\ IF ~MethodAllowed(inbound[r].method)
       THEN /\ Respond(r, Context(r),
                       NewResponse(MethodNotAllowedText, 405, "", VersionHeaders))
            /\ UNCHANGED bodyReads
       ELSE /\ pc' = [pc EXCEPT ![r] = "awaitBody"]
            /\ bodyReads' = [bodyReads EXCEPT ![r] = @ + 1]
            /\ UNCHANGED << returned, remoteLog, consoleLog, thrown, events, clock >>
    /\ UNCHANGED << envVersion, inbound, requestBody, pending, outbound, fetched,
                    respReads, faults, forwarded, backend >>

\* request.text() resolves: logRequestDetails, then forwardRequest up to the
\* await of fetch(backendRequest)
BodyCaptured(r) ==
    /\ pc[r] = "awaitBody"
    /\ LET text == UTF8Decode(inbound[r].body)
           ready == BeforeFetch(Context(r), r, inbound[r], text)
       IN /\ requestBody' = [requestBody EXCEPT ![r] = text]
          /\ IF ready.exc = << >>
             THEN /\ outbound' = [outbound EXCEPT ![r] =
                                    IssueFetch(@, BackendRequest(inbound[r], text))]
                  /\ Commit(r, ready)
                  /\ pc' = [pc EXCEPT ![r] = "awaitFetch"]
                  /\ UNCHANGED returned
             ELSE /\ HandlerEnd(r, ready)
                  /\ UNCHANGED outbound
    /\ UNCHANGED << envVersion, inbound, pending, fetched, bodyReads, respReads,
                    faults, forwarded, backend >>

\* request.text() rejects: handleRequest's catch
BodyReadFails(r) ==
    /\ pc[r] = "awaitBody"
    /\ \E error \in InboundErrors :
         HandlerEnd(r, Raise(Context(r), error, "request.text", ""))
    /\ UNCHANGED << envVersion, inbound, requestBody, pending, outbound, fetched,
                    bodyReads, respReads, faults, forwarded, backend >>

\* forwardRequest's branch for a response that is absent or not ok: the
\* BACKEND_ERROR record, then the throw; what reaches the catch is the first
\* exception raised
BackendErrorRaised(r, absent, status) ==
    LET logged == BackendErrorLog(Context(r), r, absent, status)
    IN IF logged.exc # << >> THEN logged
       ELSE Raise(logged, BackendError(absent, status), "forwardRequest", "")

\* fetch resolves with a response: a response that is not ok is logged as
\* BACKEND_ERROR and the Error thrown for it lands in forwardRequest's own
\* catch; for an ok response, up to the await of response.text()
FetchReturns(r) ==
    /\ pc[r] = "awaitFetch"
    /\ \E response \in ResponsesOffered :
         /\ fetched' = [fetched EXCEPT ![r] = Append(@, [ kind |-> "response",
                                                          response |-> response ])]
         /\ IF ~Ok(response)
            THEN /\ AfterForwardCatch(r, BackendErrorRaised(r, FALSE, response.status))
                 /\ UNCHANGED << pending, respReads >>
            ELSE /\ pending' = [pending EXCEPT ![r] = << response >>]
                 /\ respReads' = [respReads EXCEPT ![r] = @ + 1]
                 /\ pc' = [pc EXCEPT ![r] = "awaitText"]
                 /\ UNCHANGED << returned, remoteLog, consoleLog, thrown, events,
                                 forwarded, clock >>
    /\ UNCHANGED << envVersion, inbound, requestBody, outbound, bodyReads, faults,
                    backend >>

\* fetch resolves with no response object (the !response arm of the check)
FetchReturnsNothing(r) ==
    /\ pc[r] = "awaitFetch"
    /\ fetched' = [fetched EXCEPT ![r] = Append(@, [ kind |-> "absent" ])]
    /\ AfterForwardCatch(r, BackendErrorRaised(r, TRUE, 0))
    /\ UNCHANGED << envVersion, inbound, requestBody, pending, outbound, bodyReads,
                    respReads, faults, backend >>

\* fetch rejects
FetchRaises(r) ==
    /\ pc[r] = "awaitFetch"
    /\ \E error \in TransportErrors :
         /\ fetched' = [fetched EXCEPT ![r] = Append(@, [ kind |-> "raised",
                                                          error |-> error ])]
         /\ AfterForwardCatch(r, Raise(Context(r), error, "fetch", ""))
    /\ UNCHANGED << envVersion, inbound, requestBody, pending, outbound, bodyReads,
                    respReads, faults, backend >>

\* mutant: response is a variable of the module, holding what some handler
\* fetched
AwaitedResponseShared(r) ==
    pending[CHOOSE q \in Reqs : pending[q] # << >>][1]

\* const response = await fetch(backendRequest): a variable of the call
AwaitedResponse(r) == pending[r][1]

\* response.text() resolves: new Response(responseBody, {status, statusText,
\* headers}), which raises a TypeError for a null body status, then return
ResponseTextRead(r) ==
    /\ pc[r] = "awaitText"
    /\ LET response == AwaitedResponse(r)
           responseBody == UTF8Decode(response.body)
           refused == [ name |-> "TypeError", message |-> NullBodyStatusText ]
       IN IF NullBodyStatus(response.status)
          THEN AfterForwardCatch(r, Raise(Context(r), refused, "new Response", ""))
          ELSE AfterForward(r, Context(r),
                            NewResponse(responseBody, response.status,
                                        response.statusText, response.headers),
                            responseBody)
    /\ pending' = [pending EXCEPT ![r] = << >>]
    /\ UNCHANGED << envVersion, inbound, requestBody, outbound, fetched, bodyReads,
                    respReads, faults, backend >>

\* response.text() rejects (the transfer of the body breaks off)
ResponseTextFails(r) ==
    /\ pc[r] = "awaitText"
    /\ \E error \in TransportErrors :
         AfterForwardCatch(r, Raise(Context(r), error, "response.text", ""))
    /\ pending' = [pending EXCEPT ![r] = << >>]
    /\ UNCHANGED << envVersion, inbound, requestBody, outbound, fetched, bodyReads,
                    respReads, faults, backend >>

Next ==
    \E r \in Reqs :
        \/ MethodCheck(r)
        \/ BodyCaptured(r)
        \/ BodyReadFails(r)
        \/ FetchReturns(r)
        \/ FetchReturnsNothing(r)
        \/ FetchRaises(r)
        \/ ResponseTextRead(r)
        \/ ResponseTextFails(r)

Spec == Init /\ [][Next]_vars

\* the same program where the serializer and the sinks may refuse
SpecFaults == InitFaults /\ [][Next]_vars

\* two requests arrive and their handlers run concurrently
InitPair ==
    /\ pc = [r \in Handlers |-> "start"]
    /\ envVersion \in {"", "42"}
    /\ inbound \in [Reqs -> PairRunRequests]
    /\ requestBody = [r \in Reqs |-> << >>]
    /\ pending = [r \in Reqs |-> << >>]
    /\ outbound = [r \in Reqs |-> << >>]
    /\ fetched = [r \in Reqs |-> << >>]
    /\ returned = [r \in Reqs |-> << >>]
    /\ thrown = [r \in Reqs |-> << >>]
    /\ remoteLog = << >>
    /\ consoleLog = << >>
    /\ bodyReads = [r \in Reqs |-> 0]
    /\ respReads = [r \in Reqs |-> 0]
    /\ faults = NoFaults
    /\ events = [r \in Reqs |-> << >>]
    /\ forwarded = [r \in Reqs |-> << >>]
    /\ backend = "pair"
    /\ clock = StillClock

\* the same program under two requests whose handlers interleave at the
\* await points
SpecPair == InitPair /\ [][Next]_vars

\* the same program while the clock moves on
SpecClock == InitClock /\ [][Next]_vars

Positions == {"start", "awaitBody", "awaitFetch", "awaitText", "done", "rejected"}

\* handleRequest of request r moves on from where it stands: its first
\* stretch is run, or the promise it awaits is settled and its continuation
\* is run
Advance(r) ==
    /\ r \in Reqs
    /\ pc[r] \in {"start", "awaitBody", "awaitFetch", "awaitText"}
    /\ pc' \in [Reqs -> Positions]
    /\ pc'[r] # pc[r]

\* the platform runs every handler it has started and settles every promise
\* a handler awaits: request.text(), fetch and response.text() resolve or
\* reject
SpecLive == Init /\ [][Next]_vars /\ \A r \in Handlers : WF_pc(Advance(r))

----------------------------------------------------------------------------
(* What a run shows of one request *)

Done(r) == pc[r] = "done"

IsPost(r) == inbound[r].method = "POST"

\* the remote records of request r, in the order written
RemoteOf(r) == SelectSeq(remoteLog, LAMBDA e : e.req = r)

ConsoleOf(r) == SelectSeq(consoleLog, LAMBDA e : e.req = r)

\* how many remote records of request r have a type in types
Count(r, types) ==
    Len(SelectSeq(remoteLog, LAMBDA e : e.req = r /\ e.record.log_type \in types))

\* the outbound call completed with a response object
Answered(r) == fetched[r] # << >> /\ fetched[r][1].kind = "response"

\* the outbound call completed with no response object
AnsweredNothing(r) == fetched[r] # << >> /\ fetched[r][1].kind = "absent"

AnsweredOk(r) == Answered(r) /\ Ok(fetched[r][1].response)

AnsweredNotOk(r) == Answered(r) /\ ~Ok(fetched[r][1].response)

\* the outbound call itself raised
FetchRaised(r) == fetched[r] # << >> /\ fetched[r][1].kind = "raised"

ThrownIn(r, places) == \E i \in 1..Len(thrown[r]) : thrown[r][i].in \in places

CaughtBy(r, catcher) == \E i \in 1..Len(thrown[r]) : thrown[r][i].caught = catcher

\* the client of request r has its one response, with this status
ClientStatus(r, status) == Len(returned[r]) = 1 /\ returned[r][1].status = status

----------------------------------------------------------------------------
(* C1 *)

\* C1: round-trip pass-through.  For every POST request for which the backend
\* returns an ok status with body B (and B arrives whole), the client receives
\* the same status and the body B unchanged, and the response carries the
\* x-serviceVersion header.
C1_RoundTripPassThrough ==
    \A r \in Reqs :
        (Done(r) /\ AnsweredOk(r) /\ ~ThrownIn(r, {"response.text"}))
        => /\ ClientStatus(r, fetched[r][1].response.status)
           /\ returned[r][1].body = fetched[r][1].response.body
           /\ XServiceVersion \in DOMAIN returned[r][1].headers

----------------------------------------------------------------------------
(* C2 *)

----------------------------------------------------------------------------
(* C3 *)

\* C3: backend error responses are preserved and forwarded.  Whenever the
\* backend answers a POST with a non-ok status s and body B, the client
\* receives status s and body B, not a synthesized response.
C3_BackendErrorPreserved ==
    \A r \in Reqs :
        (Done(r) /\ AnsweredNotOk(r))
        => /\ ClientStatus(r, fetched[r][1].response.status)
           /\ returned[r][1].body = fetched[r][1].response.body

----------------------------------------------------------------------------
(* C4 *)

----------------------------------------------------------------------------
(* C5 *)

\* C5: whenever the backend is unreachable (the outbound fetch raises), the
\* client receives status 503 with a body containing the backend URL, and
\* exactly one FORWARD_ERROR record is emitted for that request.
C5_FetchRaises503 ==
    \A r \in Reqs :
        (Done(r) /\ FetchRaised(r))
        => /\ ClientStatus(r, 503)
           /\ Includes(returned[r][1].body, UTF8Encode(backendUrl))
           /\ Count(r, {"FORWARD_ERROR"}) = 1

\* C5 as amended: whenever the outbound fetch raises a network-level failure
\* (a TypeError whose message mentions fetch), the client receives status 503
\* with a body containing the backend URL; whenever it raises anything else,
\* the client receives 502; in both cases exactly one FORWARD_ERROR record is
\* emitted for that request.
C5_NetworkFailure503Else502 ==
    \A r \in Reqs :
        (Done(r) /\ FetchRaised(r))
        => /\ Count(r, {"FORWARD_ERROR"}) = 1
           /\ IF /\ fetched[r][1].error.name = "TypeError"
                 /\ Includes(fetched[r][1].error.message, FetchWord)
              THEN /\ ClientStatus(r, 503)
                   /\ Includes(returned[r][1].body, UTF8Encode(backendUrl))
              ELSE ClientStatus(r, 502)

C5_Witness ==
    \E r \in Reqs :
        /\ Done(r) /\ FetchRaised(r)
        /\ fetched[r][1].error.message = FetchFailedText
        /\ ClientStatus(r, 503)
        /\ Count(r, {"FORWARD_ERROR"}) = 1

----------------------------------------------------------------------------
(* C6 *)

\* C6: for every request whose method is not POST, the response status is
\* exactly 405 with body "Method not allowed", and no log record (remote or
\* console) is emitted and no body read or outbound call happens.
C6_NonPost405NoLog ==
    \A r \in Reqs :
        ~IsPost(r)
        => /\ RemoteOf(r) = << >>
           /\ ConsoleOf(r) = << >>
           /\ bodyReads[r] = 0
           /\ outbound[r] = << >>
           /\ pc[r] \in {"start", "done"}
           /\ Done(r) => /\ ClientStatus(r, 405)
                         /\ returned[r][1].body = UTF8Encode(MethodNotAllowedText)

C6_Witness ==
    \E r \in Reqs : Done(r) /\ inbound[r].method = "GET" /\ ClientStatus(r, 405)

----------------------------------------------------------------------------
(* C7 *)

\* position of the first remote record of request r with a type in types; 0
\* when there is none
FirstOf(r, types) ==
    LET mine == RemoteOf(r)
        hits == {i \in 1..Len(mine) : mine[i].record.log_type \in types}
    IN IF hits = {} THEN 0 ELSE CHOOSE i \in hits : \A j \in hits : i <= j

\* C7: for every POST request whose body is read successfully and for which
\* the Forward step returns a response (the backend's or a synthesized one),
\* exactly one REQUEST record and exactly one record of type RESPONSE or
\* RESPONSE_ERROR are emitted to the remote sink, with the REQUEST record
\* first.
C7_OneRequestOneResponseRecord ==
    \A r \in Reqs :
        (Done(r) /\ IsPost(r) /\ ~ThrownIn(r, {"request.text"}))
        => /\ Count(r, {"REQUEST"}) = 1
           /\ Count(r, {"RESPONSE", "RESPONSE_ERROR"}) = 1
           /\ FirstOf(r, {"REQUEST"}) = 1
           /\ FirstOf(r, {"RESPONSE", "RESPONSE_ERROR"}) = Len(RemoteOf(r))

\* a pass-through and a synthesized response, each with its pair of records
C7_Witness ==
    \E r \in Reqs :
        /\ Done(r) /\ IsPost(r)
        /\ Count(r, {"REQUEST"}) = 1
        /\ Count(r, {"RESPONSE_ERROR"}) = 1
        /\ Len(RemoteOf(r)) = 4

----------------------------------------------------------------------------
(* C8 *)

\* C8: whenever the backend returns a non-ok status, exactly one BACKEND_ERROR
\* record is emitted for that request and no RESPONSE record is emitted after
\* it.
C8_OneBackendErrorNoResponse ==
    \A r \in Reqs :
        (Done(r) /\ AnsweredNotOk(r))
        => /\ Count(r, {"BACKEND_ERROR"}) = 1
           /\ Count(r, {"RESPONSE"}) = 0
           /\ LET at == FirstOf(r, {"BACKEND_ERROR"})
              IN /\ at > 0
                 /\ RemoteOf(r)[at].record.response_status
                      = fetched[r][1].response.status

C8_Witness ==
    \E r \in Reqs :
        /\ Done(r) /\ AnsweredNotOk(r)
        /\ fetched[r][1].response.status = 500
        /\ Count(r, {"BACKEND_ERROR"}) = 1
        /\ Len(RemoteOf(r)) > FirstOf(r, {"BACKEND_ERROR"})

----------------------------------------------------------------------------
(* C9 *)

\* forwardRequest was invoked for request r and has finished
Forwarded(r) == Done(r) /\ outbound[r] # << >>

----------------------------------------------------------------------------
(* C10 *)

\* C10: every response returned to a caller, on every path (405, 500,
\* synthesized 502/503, and backend pass-through), carries the header
\* x-serviceVersion equal to the ambient service version (or "unknown"),
\* overriding any x-serviceVersion value the backend itself sent.
C10_VersionHeaderAlways ==
    \A r \in Reqs :
        \A i \in 1..Len(returned[r]) :
            /\ XServiceVersion \in DOMAIN returned[r][i].headers
            /\ returned[r][i].headers[XServiceVersion]
                 = (IF envVersion = "" THEN "unknown" ELSE envVersion)

\* a pass-through of a backend response that carried its own x-serviceVersion
C10_Witness ==
    \E r \in Reqs :
        /\ Done(r) /\ AnsweredOk(r)
        /\ XServiceVersion \in DOMAIN fetched[r][1].response.headers
        /\ ClientStatus(r, 200)
        /\ returned[r][1].headers[XServiceVersion] = "unknown"

----------------------------------------------------------------------------
(* What a run with faults shows of one request *)

\* handleRequest has ended, with a Response or with a rejected promise
Ended(r) == pc[r] \in {"done", "rejected"}

\* the calls an emission makes
LogCalls == {"JSON.stringify", "logger.log", "logger.log (fallback)", "console.log"}

\* the catches that keep an exception inside the emission or inside
\* logResponseDetails
LocalCatches == {"validation", "logResponseDetails", "promise"}

\* request r has a remote record of this type that is the minimal fallback
HasFallback(r, logType) ==
    \E i \in 1..Len(remoteLog) :
        /\ remoteLog[i].req = r
        /\ remoteLog[i].record.log_type = logType
        /\ "error_message" \in DOMAIN remoteLog[i].record
        /\ remoteLog[i].record.error_message = JSONSerializationFailedText
        /\ "error_type" \notin DOMAIN remoteLog[i].record

----------------------------------------------------------------------------
(* C11 *)

\* C11: log emission never raises and never affects the client-visible
\* outcome.  At the emission points REQUEST, RESPONSE, RESPONSE_ERROR,
\* BACKEND_ERROR and FORWARD_ERROR a failure of JSON.stringify, logger.log or
\* console.log stays inside the emission (no catch of forwardRequest or
\* handleRequest sees it), the handler still returns its Response, and a 500
\* is returned only when reading the inbound body failed.
C11_LogFailureSwallowed ==
    \A r \in Reqs :
        (Ended(r) /\ IsPost(r))
        => /\ \A i \in 1..Len(thrown[r]) :
                (/\ thrown[r][i].in \in LogCalls
                 /\ thrown[r][i].about \in { "REQUEST", "RESPONSE", "RESPONSE_ERROR",
                                             "BACKEND_ERROR", "FORWARD_ERROR" })
                => thrown[r][i].caught \in LocalCatches
           /\ Done(r)
           /\ (ClientStatus(r, 500) => ThrownIn(r, {"request.text"}))

----------------------------------------------------------------------------
(* C12 *)

\* C12: whenever JSON.stringify raises on a log record, the minimal fallback
\* record with the same log_type and error_message "JSON serialization
\* failed" is written to the remote sink in its place, at every emission
\* point.
C12_FallbackOnSerializationFailure ==
    \A r \in Reqs :
        Ended(r)
        => \A i \in 1..Len(thrown[r]) :
               thrown[r][i].in = "JSON.stringify"
               => HasFallback(r, thrown[r][i].about)

----------------------------------------------------------------------------
(* C13 *)

----------------------------------------------------------------------------
(* C14 *)

\* C14: for every POST request the outbound request is addressed to the one
\* fixed backend URL and carries the inbound method, the inbound headers and
\* the captured body text, all unchanged.
C14_OutboundCarriesInbound ==
    \A r \in Reqs :
        \A i \in 1..Len(outbound[r]) :
            /\ outbound[r][i].url = backendUrl
            /\ outbound[r][i].method = inbound[r].method
            /\ outbound[r][i].headers = inbound[r].headers
            /\ UTF8Decode(outbound[r][i].body) = requestBody[r]

----------------------------------------------------------------------------
(* C15 *)

\* C15: whenever an exception reaches the catch of handleRequest for a POST
\* request (reading the body fails), exactly one REQUEST_ERROR record with
\* error_type PROCESSING_ERROR is emitted and the client receives status 500
\* with the body "Internal Server Error", whatever the error's message.
C15_HandlerError500 ==
    \A r \in Reqs :
        (Done(r) /\ IsPost(r) /\ CaughtBy(r, "handleRequest"))
        => /\ Count(r, {"REQUEST_ERROR"}) = 1
           /\ \A i \in 1..Len(remoteLog) :
                (remoteLog[i].req = r /\ remoteLog[i].record.log_type = "REQUEST_ERROR")
                => /\ remoteLog[i].record.error_type = "PROCESSING_ERROR"
                   /\ remoteLog[i].record.error_message = thrown[r][1].error.message
           /\ ClientStatus(r, 500)
           /\ returned[r][1].body = UTF8Encode(InternalServerErrorText)

\* reading the body failed with the error named Error and was answered 500
C15_Witness ==
    \E r \in Reqs :
        /\ Done(r) /\ IsPost(r)
        /\ ThrownIn(r, {"request.text"})
        /\ thrown[r][1].error.name = "Error"
        /\ ClientStatus(r, 500)
        /\ Count(r, {"REQUEST_ERROR"}) = 1

----------------------------------------------------------------------------
(* C16 *)

\* the texts of the model that are JSON: the numerals written with the digit 1
OnesNumeral(text) == text # << >> /\ \A i \in 1..Len(text) : text[i] = 49

RECURSIVE Repunit(_)
Repunit(n) == IF n = 0 THEN 0 ELSE 10 * Repunit(n - 1) + 1

\* C16: the request_body of the REQUEST record is the parsed JSON value when
\* the captured body text is JSON and the raw text otherwise; whatever the
\* body, when the outbound call is pending the REQUEST record is the only
\* record, nothing has been raised and nothing has been returned.
C16_RequestBodyParsedOrRaw ==
    \A r \in Reqs :
        /\ \A i \in 1..Len(remoteLog) :
             (remoteLog[i].req = r /\ remoteLog[i].record.log_type = "REQUEST")
             => IF OnesNumeral(requestBody[r])
                THEN /\ remoteLog[i].record.request_body.json
                     /\ remoteLog[i].record.request_body.number
                          = Repunit(Len(requestBody[r]))
                ELSE /\ ~remoteLog[i].record.request_body.json
                     /\ remoteLog[i].record.request_body.text = requestBody[r]
        /\ pc[r] = "awaitFetch"
           => /\ Count(r, {"REQUEST"}) = 1
              /\ Len(RemoteOf(r)) = 1
              /\ thrown[r] = << >>
              /\ returned[r] = << >>
              /\ Len(outbound[r]) = 1

\* a body that is JSON (the text 11) has been logged as the number 11
C16_Witness ==
    \E r \in Reqs :
        /\ pc[r] = "awaitFetch"
        /\ requestBody[r] = << 49, 49 >>
        /\ Len(RemoteOf(r)) = 1
        /\ RemoteOf(r)[1].record.request_body.number = 11

----------------------------------------------------------------------------
(* C17 *)

\* C17: whenever the outbound call itself raises, forwardRequest does not
\* raise: it returns one synthesized response, with status 503 for a
\* TypeError whose message mentions fetch and 502 for any other error; the
\* catch of handleRequest is not entered, no REQUEST_ERROR record is written
\* and the client receives that 503 or 502, never 500.
C17_TransportFailureAnsweredByForwarder ==
    \A r \in Reqs :
        (Done(r) /\ FetchRaised(r))
        => LET error == fetched[r][1].error
               status == IF error.name = "TypeError"
                            /\ Includes(error.message, FetchWord)
                         THEN 503 ELSE 502
           IN /\ Len(forwarded[r]) = 1
              /\ forwarded[r][1].status = status
              /\ ~CaughtBy(r, "handleRequest")
              /\ Count(r, {"REQUEST_ERROR"}) = 0
              /\ ClientStatus(r, status)

\* a fetch that raised an error other than a TypeError was answered with the
\* forwarder's 502
C17_Witness ==
    \E r \in Reqs :
        /\ Done(r) /\ FetchRaised(r)
        /\ fetched[r][1].error.name = "Error"
        /\ Len(forwarded[r]) = 1
        /\ ClientStatus(r, 502)

----------------------------------------------------------------------------
(* C18 *)

\* the steps of request r before its step number k
Earlier(r, k, steps) == \E j \in 1..(k - 1) : events[r][j] \in steps

\* the "emit" steps of request r are its remote records, in the same order
EmitsAreRecords(r) ==
    LET emits == SelectSeq(events[r], LAMBDA e : e[1] = "emit")
    IN /\ Len(emits) = Len(RemoteOf(r))
       /\ \A i \in 1..Len(emits) : emits[i][2] = RemoteOf(r)[i].record.log_type

\* C18: per request, the inbound body is captured before the REQUEST record
\* is emitted, the REQUEST record is emitted before the outbound call is
\* issued, and once the backend call has an outcome the RESPONSE or
\* RESPONSE_ERROR record is emitted before the response is returned.
C18_PerRequestOrdering ==
    \A r \in Reqs :
        /\ EmitsAreRecords(r)
        /\ Len(SelectSeq(events[r], LAMBDA e : e[1] = "fetch")) = Len(outbound[r])
        /\ Len(SelectSeq(events[r], LAMBDA e : e[1] = "return")) = Len(returned[r])
        /\ \A k \in 1..Len(events[r]) :
             /\ events[r][k] = << "emit", "REQUEST" >>
                => Earlier(r, k, {<< "read", "request.text" >>})
             /\ events[r][k][1] = "fetch"
                => Earlier(r, k, {<< "emit", "REQUEST" >>})
             /\ (events[r][k][1] = "return" /\ fetched[r] # << >>)
                => Earlier(r, k, {<< "emit", "RESPONSE" >>,
                                  << "emit", "RESPONSE_ERROR" >>})

\* a request answered ok went through its five steps in this order
C18_Witness ==
    \E r \in Reqs :
        /\ Done(r) /\ AnsweredOk(r)
        /\ events[r] = << << "read", "request.text" >>, << "emit", "REQUEST" >>,
                          << "fetch", backendUrl >>, << "emit", "RESPONSE" >>,
                          << "return", "handleRequest" >> >>

----------------------------------------------------------------------------
(* C19 *)

\* C19: whatever logResponseDetails emits (RESPONSE, RESPONSE_ERROR, or
\* RESPONSE_LOG_ERROR when emitting raised) and whatever fails in it, the
\* response the client receives has the status, the status text and the body
\* of the response forwardRequest returned, and its headers with
\* x-serviceVersion set and nothing else changed.
C19_LogResponseLeavesResponse ==
    \A r \in Reqs :
        (Ended(r) /\ forwarded[r] # << >>)
        => /\ Len(forwarded[r]) = 1
           /\ Len(returned[r]) = 1
           /\ returned[r][1].status = forwarded[r][1].status
           /\ returned[r][1].statusText = forwarded[r][1].statusText
           /\ returned[r][1].body = forwarded[r][1].body
           /\ DOMAIN returned[r][1].headers
                = DOMAIN forwarded[r][1].headers \cup {XServiceVersion}
           /\ \A n \in DOMAIN returned[r][1].headers :
                returned[r][1].headers[n]
                  = IF n = XServiceVersion THEN SERVICE_VERSION
                    ELSE forwarded[r][1].headers[n]

\* an ok response whose RESPONSE record could not be serialized was logged as
\* RESPONSE_LOG_ERROR and returned with status 200
C19_Witness ==
    \E r \in Reqs :
        /\ Done(r) /\ AnsweredOk(r)
        /\ Count(r, {"RESPONSE_LOG_ERROR"}) = 1
        /\ Count(r, {"RESPONSE"}) = 0
        /\ ClientStatus(r, 200)

----------------------------------------------------------------------------
(* C20 *)

\* C20: for any request and any outcome, failures of logging included, the
\* inbound body is read at most once, the outbound call is issued at most
\* once and has at most one outcome, and the backend response body is read
\* at most once.
C20_AtMostOnce ==
    \A r \in Reqs :
        /\ bodyReads[r] <= 1
        /\ Len(outbound[r]) <= 1
        /\ Len(fetched[r]) <= 1
        /\ respReads[r] <= 1
        /\ Len(SelectSeq(events[r], LAMBDA e : e[1] = "fetch")) <= 1
        /\ Len(SelectSeq(events[r], LAMBDA e : e[1] = "read")) <= bodyReads[r]

\* a request whose RESPONSE emission failed has ended with one read of the
\* inbound body, one outbound call and one read of the response body
C20_Witness ==
    \E r \in Reqs :
        /\ Ended(r)
        /\ \E i \in 1..Len(thrown[r]) :
             thrown[r][i].in \in LogCalls /\ thrown[r][i].about = "RESPONSE"
        /\ bodyReads[r] = 1
        /\ Len(outbound[r]) = 1
        /\ respReads[r] = 1

----------------------------------------------------------------------------
(* C22 *)

\* C22: with sinks that accept every write, every inbound request
\* eventually has exactly one Response, whatever its method and whatever
\* the backend does: handleRequest never ends by raising (its promise is
\* never rejected), never hands over a second Response, and ends by
\* returning one.
C22_EventuallyOneResponse ==
    /\ [](\A r \in Reqs : pc[r] # "rejected" /\ Len(returned[r]) <= 1)
    /\ <>[](\A r \in Reqs : pc[r] = "done" /\ Len(returned[r]) = 1)

\* a request the backend gave no response object for has its one Response
C22_Witness ==
    \E r \in Reqs :
        /\ Done(r) /\ AnsweredNothing(r)
        /\ Len(returned[r]) = 1
        /\ returned[r][1].status = 502

----------------------------------------------------------------------------
(* C24 *)

\* C24: for every POST request with sinks that accept every write, a
\* RESPONSE record is emitted exactly when the client receives an ok status
\* of the backend passed through, and a RESPONSE_ERROR record is emitted
\* exactly when the client receives a synthesized 502 or 503.
C24_LogTypeAgreesWithOutcome ==
    \A r \in Reqs :
        IsPost(r)
        => /\ Count(r, {"RESPONSE"}) >= 1
              <=> /\ Len(returned[r]) = 1
                  /\ returned[r][1].status \in 200..299
                  /\ Answered(r)
                  /\ returned[r][1].status = fetched[r][1].response.status
           /\ Count(r, {"RESPONSE_ERROR"}) >= 1
              <=> /\ Len(returned[r]) = 1
                  /\ returned[r][1].status \in {502, 503}
                  /\ Len(forwarded[r]) = 1
                  /\ forwarded[r][1].status = returned[r][1].status
                  /\ CaughtBy(r, "forwardRequest")
           /\ Count(r, {"RESPONSE", "RESPONSE_ERROR"}) <= 1

\* both cases have happened: a 503 with its RESPONSE_ERROR record
C24_Witness ==
    \E r \in Reqs :
        /\ Done(r) /\ IsPost(r)
        /\ ClientStatus(r, 503)
        /\ Count(r, {"RESPONSE_ERROR"}) = 1
        /\ Count(r, {"RESPONSE"}) = 0

----------------------------------------------------------------------------
(* C21 *)

\* C21: in every record written to the remote sink, created_at equals
\* timestamp and partition_date is the date portion of that timestamp, also
\* when the clock moves on (within a day or across midnight) while the
\* record is being built.
C21_OneInstantPerRecord ==
    \A i \in 1..Len(remoteLog) :
        /\ remoteLog[i].record.created_at = remoteLog[i].record.timestamp
        /\ remoteLog[i].record.partition_date
             = BeforeT(remoteLog[i].record.timestamp)

----------------------------------------------------------------------------
(* C23 *)

\* sinks nobody else writes to
AloneContext ==
    [ remote |-> << >>, console |-> << >>, exc |-> << >>, thrown |-> << >>,
      events |-> << >>, clock |-> StillClock ]

\* the error request r met at this place
ErrorIn(r, place) ==
    thrown[r][CHOOSE i \in 1..Len(thrown[r]) : thrown[r][i].in = place].error

\* forwardRequest run in one piece on the backend outcome request r had
AloneForward(r, sinks) ==
    LET outcome == fetched[r][1]
        caught(raised) ==
            ForwardCatch(Caught(raised, "forwardRequest"), r, raised.exc[1].error)
    IN IF outcome.kind = "raised"
       THEN caught(Raise(sinks, outcome.error, "fetch", ""))
       ELSE IF outcome.kind = "absent"
       THEN caught(Raise(BackendErrorLog(sinks, r, TRUE, 0),
                         BackendError(TRUE, 0), "forwardRequest", ""))
       ELSE IF ~Ok(outcome.response)
       THEN caught(Raise(BackendErrorLog(sinks, r, FALSE, outcome.response.status),
                         BackendError(FALSE, outcome.response.status),
                         "forwardRequest", ""))
       ELSE IF ThrownIn(r, {"response.text"})
       THEN caught(Raise(sinks, ErrorIn(r, "response.text"), "response.text", ""))
       ELSE IF NullBodyStatus(outcome.response.status)
       THEN caught(Raise(sinks, [ name |-> "TypeError",
                                  message |-> NullBodyStatusText ],
                         "new Response", ""))
       ELSE [ sinks |-> sinks,
              response |-> NewResponse(UTF8Decode(outcome.response.body),
                                       outcome.response.status,
                                       outcome.response.statusText,
                                       outcome.response.headers),
              responseBody |-> UTF8Decode(outcome.response.body) ]

\* handleRequest run in one piece and alone, on the inbound request and the
\* backend outcome request r had
AloneRun(r) ==
    IF ~MethodAllowed(inbound[r].method)
    THEN [ sinks |-> Event(AloneContext, "return", "handleRequest"),
           response |-> NewResponse(MethodNotAllowedText, 405, "", VersionHeaders) ]
    ELSE IF ThrownIn(r, {"request.text"})
    THEN LET ended == HandlerCatch(Caught(Raise(AloneContext,
                                                ErrorIn(r, "request.text"),
                                                "request.text", ""),
                                          "handleRequest"),
                                   r, ErrorIn(r, "request.text"))
         IN [ sinks |-> Event(ended.sinks, "return", "handleRequest"),
              response |-> ended.response ]
    ELSE LET ready == BeforeFetch(AloneContext, r, inbound[r],
                                  UTF8Decode(inbound[r].body))
             back == AloneForward(r, ready)
             logged == logResponseDetails(back.sinks, r, back.response,
                                          back.responseBody)
         IN [ sinks |-> Event(logged, "return", "handleRequest"),
              response |-> addServiceVersionHeader(back.response) ]

\* C23: when the handlers of two requests interleave at their await points,
\* each caller receives the response that its own inbound request and its
\* own backend outcome give when handled alone, and the request's own
\* remote and console records, its exceptions and its steps are those of
\* the run alone, in the same order and number.
C23_IndependentUnderInterleaving ==
    \A r \in Reqs :
        Done(r)
        => /\ returned[r] = << AloneRun(r).response >>
           /\ RemoteOf(r) = AloneRun(r).sinks.remote
           /\ ConsoleOf(r) = AloneRun(r).sinks.console
           /\ thrown[r] = AloneRun(r).sinks.thrown
           /\ events[r] = AloneRun(r).sinks.events

\* two handlers have interleaved (a record of r2 stands between two records
\* of r1) and ended with different outcomes: 200 for r1, 502 for r2
C23_Witness ==
    /\ Reqs = {"r1", "r2"}
    /\ Done("r1") /\ Done("r2")
    /\ ClientStatus("r1", 200) /\ ClientStatus("r2", 502)
    /\ \E i, j, k \in 1..Len(remoteLog) :
         /\ i < j /\ j < k
         /\ remoteLog[i].req = "r1"
         /\ remoteLog[j].req = "r2"
         /\ remoteLog[k].req = "r1"

====
